---- MODULE Spec2Model ----
(***************************************************************************)
(* URL shortener: the rate limiter, the read-through cache and the         *)
(* redirect / create / update / delete paths of URLService, each request   *)
(* running in its own database session (commit after the handler returns). *)
(*                                                                         *)
(* A request is a coroutine.  Its pc names the call it is suspended on     *)
(* (an awaited Redis or database call); one action is the completion of    *)
(* that call followed by the synchronous code up to the next awaited call. *)
(***************************************************************************)
EXTENDS Integers, Sequences, FiniteSets, TLC

(* ------------------------------ bounds -------------------------------- *)
\* Clock values 0..MaxTime (seconds for the limiter, days for expiry).
MaxTime == 2
\* Largest id the urls table's serial primary key hands out.
MaxId == 2
\* Cap on the clicks column and on the rows of the clicks table.
MaxClicks == 2
\* RateLimiter(requests, window): the limiter is instantiated with a small
\* limit and window (the module-level instance uses 100 and 3600).
Requests == 2
Window == 2

(* ------------------------------ values --------------------------------- *)
Reqs == {"r1", "r2"}
Ips == {"ip1", "ip2"}
Codes == {"a", "b"}
UserAgents == {"ua1"}
NoneStr == "None"
NoneInt == -1

VARIABLES
    now,        \* time.time() / datetime.now(): the wall clock
    zsets,      \* Redis sorted sets rate_limit:<ip>:<endpoint>: the members
                \* [member, score] present
    zttl,       \* Redis: expiry deadline of each sorted-set key (NoneInt: none)
    urlCache,   \* Redis strings url:<code>: the payload text (<<>>: no key)
    analytics,  \* Redis counters analytics:<code>
    urls,       \* committed rows of table urls
    clicks,     \* committed rows of table clicks (append order)
    nextId,     \* serial sequence of urls.id
    reqs        \* the requests in flight, one coroutine + session each

vars == <<now, zsets, zttl, urlCache, analytics, urls, clicks, nextId, reqs>>

(* ------------------------------ rows ----------------------------------- *)
\* "No row": the result of scalar_one_or_none() when nothing matches.
NoRow == [id |-> 0, original_url |-> NoneStr, short_code |-> NoneStr,
          custom_alias |-> NoneStr, expires_at |-> NoneInt,
          is_active |-> TRUE, clicks |-> 0]

\* A request that is not running (initially, or after its session closed).
\*   op, pc    handler and the awaited call it is suspended on
\*   status    HTTP status of the response (0 while the handler runs)
\*   detail    the HTTPException's detail text
\*   ip..days  the handler's arguments (alias: update_data.custom_alias)
\*   current   rate limiter: int(time.time()) read on entry
\*   rlExc     rate limiter: exception raised inside its try block
\*   rl        rate limiter: how check_rate_limit ended, "returned" or
\*             "raised" ("none" before)
\*   obj       the URL object of the session's identity map
\*   pend      what the session flushes at commit
\*   result    the value the service method returned
\*   tx        the session: "open", "committed" or "rolledback"
\*   after     redirect: the requests whose update/delete had already
\*             returned to the controller when this redirect started and
\*             whose session is still open
Idle == [op |-> "none", pc |-> "done", status |-> 0, detail |-> "",
         ip |-> NoneStr, code |-> NoneStr, ua |-> NoneStr,
         valid |-> TRUE, days |-> 0, alias |-> NoneStr,
         current |-> 0, rlExc |-> "none", rl |-> "none",
         obj |-> NoRow, pend |-> "none", result |-> NoneStr, tx |-> "none",
         after |-> {}]

\* request.client.host: connection r1 is used by both clients, r2 by one,
\* so that checks of one key and of two keys both interleave.
ClientIps(r) == IF r = "r1" THEN Ips ELSE {"ip1"}

Endpoint == "create_url"

\* f"rate_limit:{ip}:{endpoint}"
RateKey(ip, endpoint) == <<"rate_limit", ip, endpoint>>

RateKeys == {RateKey(ip, Endpoint) : ip \in Ips}

(* ------------------------------ helpers -------------------------------- *)
Running(r) == reqs[r].pc # "done"

\* What stays readable of a closed request is its outcome.
Closed(q, status, detail, tx) ==
    [Idle EXCEPT !.op = q.op, !.status = status, !.detail = detail,
                 !.code = q.code, !.rlExc = q.rlExc, !.rl = q.rl, !.tx = tx]

\* An exception left the handler: get_db's except branch rolls the session
\* back and closes it.
Fail(q, status, detail) == Closed(q, status, detail, "rolledback")

\* Redis key expiry: a key whose deadline has passed is gone.
Expired(t) == {k \in RateKeys : zttl[k] # NoneInt /\ zttl[k] <= t}

(* --------------------------- Redis adapter ----------------------------- *)
\* ZREMRANGEBYSCORE key min max: drops the members with min <= score <= max.
zremrangebyscore(set, min_score, max_score) ==
    {m \in set : ~(min_score <= m.score /\ m.score <= max_score)}

\* ZCARD key
zcard(set) == Cardinality(set)

\* str(current): the decimal text of an integer.
str(n) == <<n>>

\* ZADD key {member: score}: a member already in the set gets the new score,
\* a new member is added.
zadd(set, member, score) ==
    {m \in set : m.member # member} \cup {[member |-> member, score |-> score]}

\* EXPIRE key seconds: no effect on a key that does not exist (an empty
\* sorted set is no key).
expire(set, ttl, seconds) == IF set = {} THEN ttl ELSE now + seconds

(* --------------------------- rate limiter ------------------------------ *)
\* `except Exception as e`: the exception classes the handler swallows.
\* fastapi.HTTPException derives from Exception, as do the Redis errors.
\* Variant: `except HTTPException` in place of `except Exception`.
RLCatchesHTTPOnly(exc) == exc = "HTTPException"

RLCatches(exc) == exc \in {"HTTPException", "RedisError"}

\* create_short_url after check_rate_limit returned: validators.url, then
\* the next awaited call (alias lookup, or first generated-code lookup).
AfterRateLimit(q, gen) ==
    LET q1 == [q EXCEPT !.rl = "returned"]
    IN  IF ~q1.valid THEN Fail(q1, 400, "Invalid URL provided")
        ELSE IF q1.code # NoneStr THEN [q1 EXCEPT !.pc = "c_check"]
        ELSE [q1 EXCEPT !.pc = "c_gen", !.result = gen]

\* An exception raised inside check_rate_limit's try block.
RLRaise(q, exc, gen) ==
    LET q1 == [q EXCEPT !.rlExc = exc]
    IN  IF RLCatches(exc) THEN AfterRateLimit(q1, gen)
        ELSE IF exc = "HTTPException"
             THEN Fail([q1 EXCEPT !.rl = "raised"], 429, "Rate limit exceeded")
             ELSE Fail([q1 EXCEPT !.rl = "raised"], 500, exc)

\* POST /urls/: create_short_url enters check_rate_limit, reads the clock and
\* issues ZREMRANGEBYSCORE.
StartCreate(r, ip, valid, alias, days) ==
    /\ ~Running(r)
    /\ valid => nextId + Cardinality({x \in Reqs : Running(x) /\ reqs[x].op = "create"
                                        /\ reqs[x].pend # "insert"}) <= MaxId
    /\ reqs' = [x \in Reqs |->
                 IF x # r THEN [reqs[x] EXCEPT !.after = @ \ {r}]
                 ELSE [Idle EXCEPT !.op = "create", !.pc = "rl_trim", !.ip = ip,
                                   !.tx = "open",
                                   !.valid = valid, !.code = alias, !.days = days,
                                   !.current = now]]
    /\ UNCHANGED <<now, zsets, zttl, urlCache, analytics, urls, clicks, nextId>>

\* cache.zremrangebyscore(key, 0, window_start) completes; ZCARD is issued.
RLTrim(r) ==
    /\ reqs[r].pc = "rl_trim"
    /\ \E ok \in BOOLEAN, gen \in Codes :
        LET q == reqs[r]
            k == RateKey(q.ip, Endpoint)
            window_start == q.current - Window
            kept == zremrangebyscore(zsets[k], 0, window_start)
        IN  IF ok
            THEN /\ zsets' = [zsets EXCEPT ![k] = kept]
                 /\ zttl' = [zttl EXCEPT ![k] = IF kept = {} THEN NoneInt ELSE @]
                 /\ reqs' = [reqs EXCEPT ![r].pc = "rl_count"]
            ELSE /\ reqs' = [reqs EXCEPT ![r] = RLRaise(q, "RedisError", gen)]
                 /\ UNCHANGED <<zsets, zttl>>
    /\ UNCHANGED <<now, urlCache, analytics, urls, clicks, nextId>>

\* cache.zcard(key) completes; over the limit raises HTTPException(429)
\* inside the try block, else ZADD is issued.
RLCount(r) ==
    /\ reqs[r].pc = "rl_count"
    /\ \E ok \in BOOLEAN, gen \in Codes :
        LET q == reqs[r]
            k == RateKey(q.ip, Endpoint)
            request_count == zcard(zsets[k])
        IN  reqs' = [reqs EXCEPT ![r] =
                IF ~ok THEN RLRaise(q, "RedisError", gen)
                ELSE IF request_count >= Requests
                     THEN RLRaise(q, "HTTPException", gen)
                     ELSE [q EXCEPT !.pc = "rl_add"]]
    /\ UNCHANGED <<now, zsets, zttl, urlCache, analytics, urls, clicks, nextId>>

\* The member check_rate_limit adds for a request: {str(current): current}.
\* Variant: one member per request (the timestamp's text is followed by an
\* identifier of the request).
RateMemberPerRequest(r) == <<reqs[r].current, r>>

RateMember(r) == str(reqs[r].current)

\* cache.zadd(key, {str(current): current}) completes; EXPIRE is issued.
RLAdd(r) ==
    /\ reqs[r].pc = "rl_add"
    /\ \E ok \in BOOLEAN, gen \in Codes :
        LET q == reqs[r]
            k == RateKey(q.ip, Endpoint)
        IN  IF ok
            THEN /\ zsets' = [zsets EXCEPT ![k] = zadd(@, RateMember(r), q.current)]
                 /\ reqs' = [reqs EXCEPT ![r].pc = "rl_expire"]
            ELSE /\ reqs' = [reqs EXCEPT ![r] = RLRaise(q, "RedisError", gen)]
                 /\ UNCHANGED zsets
    /\ UNCHANGED <<now, zttl, urlCache, analytics, urls, clicks, nextId>>

\* cache.expire(key, window) completes; check_rate_limit returns and
\* create_short_url goes on.
RLExpire(r) ==
    /\ reqs[r].pc = "rl_expire"
    /\ \E ok \in BOOLEAN, gen \in Codes :
        LET q == reqs[r]
            k == RateKey(q.ip, Endpoint)
        IN  IF ok
            THEN /\ zttl' = [zttl EXCEPT ![k] = expire(zsets[k], @, Window)]
                 /\ reqs' = [reqs EXCEPT ![r] = AfterRateLimit(q, gen)]
            ELSE /\ reqs' = [reqs EXCEPT ![r] = RLRaise(q, "RedisError", gen)]
                 /\ UNCHANGED zttl
    /\ UNCHANGED <<now, zsets, urlCache, analytics, urls, clicks, nextId>>

(* ---------------------------- durable store ---------------------------- *)
\* select(URL).where(URL.short_code == code) ... scalar_one_or_none()
RowByCode(code) ==
    IF \E u \in urls : u.short_code = code
    THEN CHOOSE u \in urls : u.short_code = code
    ELSE NoRow

\* select(URL).where(or_(URL.short_code == alias, URL.custom_alias == alias))
\* Variant: the alias lookup compares the custom_alias column only.
RowsByAliasColumn(alias) == {u \in urls : u.custom_alias = alias}

RowsByAlias(alias) ==
    {u \in urls : u.short_code = alias \/ u.custom_alias = alias}

\* The row with primary key id, as an UPDATE/DELETE ... WHERE id = :id sees it.
RowIn(table, id) ==
    IF \E u \in table : u.id = id THEN CHOOSE u \in table : u.id = id ELSE NoRow

RowById(id) == RowIn(urls, id)

\* Column(..., unique=True) on short_code and on custom_alias: would row u
\* violate a unique index against row v?  (NULL aliases never collide.)
\* Variant: the columns carry no unique index.
NoUniqueIndex(u, v) == FALSE

UniqueViolation(u, v) ==
    \/ u.short_code = v.short_code
    \/ u.custom_alias # NoneStr /\ u.custom_alias = v.custom_alias

\* URL.set_expiration(days): `if days:` then utcnow() + timedelta(days)
set_expiration(expires_at, days) == IF days # 0 THEN now + days ELSE expires_at

(* ------------------------------- cache --------------------------------- *)
\* datetime.isoformat() / datetime.fromisoformat(): the text of a timestamp
\* is a one-element sequence.
isoformat(t) == <<t>>
fromisoformat(text) == text[1]

\* The dict URLService hands to cache_url for a row.
CacheEntry(u) ==
    [original_url |-> u.original_url, is_active |-> u.is_active,
     expires_at |-> IF u.expires_at # NoneInt THEN isoformat(u.expires_at) ELSE <<>>]

\* CacheService.cache_url: `cache.set_key(...)` is called without await, so
\* the coroutine is created and dropped: SET is never sent.
cache_url(cache, code, entry) == cache

\* json.dumps(url_data) / json.loads(cached): the payload is text; loads
\* gives back the dict of a text dumps produced and raises JSONDecodeError
\* on any other text.
dumps(url_data) == <<"json", url_data>>
Parses(text) == Len(text) = 2 /\ text[1] = "json"
loads(text) == text[2]

\* A payload that is not JSON.
Malformed == <<"{">>

\* How a call ended: with a value, or by raising.
Returned(value) == [exc |-> "none", value |-> value]
Raised(exc) == [exc |-> exc, value |-> <<>>]

\* CacheService.get_cached_url: GET url:<code>; `if cached:` then
\* json.loads(cached), else None (value <<>>).  Nothing catches what
\* json.loads raises.
get_cached_url(cache, code) ==
    IF cache[code] = <<>> THEN Returned(<<>>)
    ELSE IF Parses(cache[code]) THEN Returned(<<loads(cache[code])>>)
    ELSE Raised("JSONDecodeError")

\* CacheService.delete_cached_url: DEL url:<code>
\* Variant: delete_key is not awaited, DEL is never sent.
delete_cached_url_dropped(cache, code) == cache

\* Variant: url:<code> is overwritten with a marker text, not deleted.
delete_cached_url_overwrite(cache, code) == [cache EXCEPT ![code] = Malformed]

delete_cached_url(cache, code) == [cache EXCEPT ![code] = <<>>]

(* ------------------------------ redirect ------------------------------- *)
\* `if expires_dt < current_time`
IsExpired(expires_dt, current_time) == expires_dt < current_time

\* get_original_url's validity checks: "" when the link may be followed,
\* else the detail of the 410 raised.
\* Variant: the is_active test is left out.
ValidateExpiryOnly(is_active, expires_at, current_time) ==
    IF expires_at # NoneInt /\ IsExpired(expires_at, current_time)
    THEN "URL has expired"
    ELSE ""

Validate(is_active, expires_at, current_time) ==
    IF ~is_active THEN "URL has been deactivated"
    ELSE IF expires_at # NoneInt /\ IsExpired(expires_at, current_time)
         THEN "URL has expired"
         ELSE ""

\* Validation, then _track_click's SELECT is issued.
Resolved(q, original_url, is_active, expires_at) ==
    LET why == Validate(is_active, expires_at, now)
    IN  IF why # "" THEN Fail(q, 410, why)
        ELSE [q EXCEPT !.pc = "r_track", !.result = original_url]

InFlight(op) == {x \in Reqs : Running(x) /\ reqs[x].op = op}

\* Request r starts or its session closes: r's record is replaced and r
\* leaves the `after` sets of the others.
Begin(r, q) ==
    reqs' = [x \in Reqs |->
                IF x = r THEN q ELSE [reqs[x] EXCEPT !.after = @ \ {r}]]

\* The update/delete requests for `code` that have returned to the
\* controller and whose session is still to commit.
ReturnedMutations(code) ==
    {m \in Reqs : /\ reqs[m].op \in {"update", "delete"}
                  /\ reqs[m].pc = "commit"
                  /\ reqs[m].code = code}

\* GET /urls/{short_code}: get_original_url issues GET url:<code>.
StartRedirect(r, code, ip, ua) ==
    /\ ~Running(r)
    /\ analytics[code] + Cardinality(InFlight("redirect")) < MaxClicks
    /\ Begin(r, [Idle EXCEPT !.op = "redirect", !.pc = "r_cache", !.tx = "open",
                             !.code = code, !.ip = ip, !.ua = ua,
                             !.after = ReturnedMutations(code)])
    /\ UNCHANGED <<now, zsets, zttl, urlCache, analytics, urls, clicks, nextId>>

\* get_cached_url answers.  Hit: the cached fields are validated.  Miss: the
\* SELECT by short code is issued.
RedirectCache(r) ==
    /\ reqs[r].pc = "r_cache"
    /\ \E ok \in BOOLEAN :
        LET q == reqs[r]
            got == get_cached_url(urlCache, q.code)
            cached == got.value
        IN  reqs' = [reqs EXCEPT ![r] =
                IF ~ok THEN Fail(q, 500, "RedisError")
                ELSE IF got.exc # "none" THEN Fail(q, 500, got.exc)
                ELSE IF cached # <<>>
                     THEN Resolved(q, cached[1].original_url, cached[1].is_active,
                                   IF cached[1].expires_at # <<>>
                                   THEN fromisoformat(cached[1].expires_at)
                                   ELSE NoneInt)
                     ELSE [q EXCEPT !.pc = "r_db"]]
    /\ UNCHANGED <<now, zsets, zttl, urlCache, analytics, urls, clicks, nextId>>

\* The SELECT answers: 404, or the row is cached (cache_url) and validated.
RedirectDb(r) ==
    /\ reqs[r].pc = "r_db"
    /\ LET q == reqs[r]
           db_url == RowByCode(q.code)
       IN  /\ reqs' = [reqs EXCEPT ![r] =
                IF db_url = NoRow THEN Fail(q, 404, "URL not found")
                ELSE Resolved([q EXCEPT !.obj = db_url], db_url.original_url,
                              db_url.is_active, db_url.expires_at)]
           /\ urlCache' = IF db_url = NoRow THEN urlCache
                          ELSE cache_url(urlCache, q.code, CacheEntry(db_url))
    /\ UNCHANGED <<now, zsets, zttl, analytics, urls, clicks, nextId>>

\* _track_click's SELECT answers.  A row: clicks += 1 on the session's
\* object, a Click is added, INCR analytics:<code> is issued.  No row:
\* get_original_url returns.
RedirectTrack(r) ==
    /\ reqs[r].pc = "r_track"
    /\ LET q == reqs[r]
           found == RowByCode(q.code)
           \* identity map: a row already loaded keeps its loaded attributes
           db_url == IF q.obj.id = found.id THEN q.obj ELSE found
       IN  reqs' = [reqs EXCEPT ![r] =
               IF found = NoRow
               THEN [q EXCEPT !.pc = "commit", !.status = 307]
               ELSE [q EXCEPT !.pc = "r_incr", !.pend = "click",
                              !.obj = [db_url EXCEPT !.clicks = @ + 1]]]
    /\ UNCHANGED <<now, zsets, zttl, urlCache, analytics, urls, clicks, nextId>>

\* increment_click_count answers; get_original_url returns original_url and
\* the controller builds the RedirectResponse.
RedirectIncr(r) ==
    /\ reqs[r].pc = "r_incr"
    /\ \E ok \in BOOLEAN :
        LET q == reqs[r]
        IN  IF ok
            THEN /\ analytics' = [analytics EXCEPT ![q.code] = @ + 1]
                 /\ reqs' = [reqs EXCEPT ![r] =
                                [q EXCEPT !.pc = "commit", !.status = 307]]
            ELSE /\ reqs' = [reqs EXCEPT ![r] = Fail(q, 500, "RedisError")]
                 /\ UNCHANGED analytics
    /\ UNCHANGED <<now, zsets, zttl, urlCache, urls, clicks, nextId>>

(* ------------------------------- create -------------------------------- *)
NewUrl == "https://new"

\* The alias lookup answers: 400 on a match, else the URL object is built
\* (short_code = alias, set_expiration) and flush() sends the INSERT.
CreateCheck(r) ==
    /\ reqs[r].pc = "c_check"
    /\ LET q == reqs[r]
           existing == RowsByAlias(q.code)
           db_url == [id |-> 0, original_url |-> NewUrl, short_code |-> q.code,
                      custom_alias |-> q.code,
                      expires_at |-> set_expiration(NoneInt, q.days),
                      is_active |-> TRUE, clicks |-> 0]
       IN  reqs' = [reqs EXCEPT ![r] =
               IF Cardinality(existing) > 1
               THEN Fail(q, 500, "MultipleResultsFound")
               ELSE IF existing # {}
                    THEN Fail(q, 400, "Custom alias already exists")
                    ELSE [q EXCEPT !.pc = "c_flush", !.obj = db_url]]
    /\ UNCHANGED <<now, zsets, zttl, urlCache, analytics, urls, clicks, nextId>>

\* The generated-code lookup answers.  `existing` is the Result object,
\* which is always truthy, so `if not existing` never holds: another code is
\* generated and looked up.
CreateGenerate(r) ==
    /\ reqs[r].pc = "c_gen"
    /\ \E short_code \in Codes :
        /\ short_code # reqs[r].result
        /\ reqs' = [reqs EXCEPT ![r].result = short_code]
    /\ UNCHANGED <<now, zsets, zttl, urlCache, analytics, urls, clicks, nextId>>

\* Rows other sessions have inserted and not yet committed or rolled back.
Uncommitted(r) ==
    {reqs[x].obj : x \in {y \in Reqs \ {r} : reqs[y].pend = "insert"}}

\* flush(): the INSERT answers.  It waits while an uncommitted row of
\* another session holds the same unique key; against a committed row it
\* raises IntegrityError.  Then cache_url, and create_short_url returns.
CreateFlush(r) ==
    /\ reqs[r].pc = "c_flush"
    /\ LET q == reqs[r]
       IN  /\ \A v \in Uncommitted(r) : ~UniqueViolation(q.obj, v)
           /\ IF \E v \in urls : UniqueViolation(q.obj, v)
              THEN /\ reqs' = [reqs EXCEPT ![r] = Fail(q, 500, "IntegrityError")]
                   /\ UNCHANGED <<nextId, urlCache>>
              ELSE /\ reqs' = [reqs EXCEPT ![r] =
                         [q EXCEPT !.pc = "commit", !.status = 201,
                                   !.pend = "insert", !.obj.id = nextId,
                                   !.result = q.obj.short_code]]
                   /\ nextId' = nextId + 1
                   /\ urlCache' = cache_url(urlCache, q.obj.short_code,
                                            CacheEntry(q.obj))
    /\ UNCHANGED <<now, zsets, zttl, analytics, urls, clicks>>

(* --------------------------- update / delete --------------------------- *)
\* PUT /urls/{short_code}: update_url issues its SELECT.
StartUpdate(r, code, alias, days) ==
    /\ ~Running(r)
    /\ Begin(r, [Idle EXCEPT !.op = "update", !.pc = "u_read", !.tx = "open",
                             !.code = code, !.valid = (alias = NoneStr),
                             !.alias = alias, !.days = days])
    /\ UNCHANGED <<now, zsets, zttl, urlCache, analytics, urls, clicks, nextId>>

\* The SELECT answers: 404; with a custom alias, `db.execute` names an
\* undefined `db` (NameError); else set_expiration and DEL url:<code> is
\* issued.
UpdateRead(r) ==
    /\ reqs[r].pc = "u_read"
    /\ LET q == reqs[r]
           db_url == RowByCode(q.code)
           expires == set_expiration(db_url.expires_at, q.days)
       IN  reqs' = [reqs EXCEPT ![r] =
               IF db_url = NoRow THEN Fail(q, 404, "URL not found")
               ELSE IF ~q.valid THEN Fail(q, 500, "NameError")
               ELSE [q EXCEPT !.pc = "x_cache",
                              !.obj = [db_url EXCEPT !.expires_at = expires],
                              !.pend = IF expires # db_url.expires_at
                                       THEN "expire" ELSE "none"]]
    /\ UNCHANGED <<now, zsets, zttl, urlCache, analytics, urls, clicks, nextId>>

\* DELETE /urls/{short_code}: delete_url issues its SELECT.
StartDelete(r, code) ==
    /\ ~Running(r)
    /\ Begin(r, [Idle EXCEPT !.op = "delete", !.pc = "d_read", !.tx = "open",
                             !.code = code])
    /\ UNCHANGED <<now, zsets, zttl, urlCache, analytics, urls, clicks, nextId>>

\* The SELECT answers: 404, or db.delete(db_url) marks the object and
\* DEL url:<code> is issued.
DeleteRead(r) ==
    /\ reqs[r].pc = "d_read"
    /\ LET q == reqs[r]
           db_url == RowByCode(q.code)
       IN  reqs' = [reqs EXCEPT ![r] =
               IF db_url = NoRow THEN Fail(q, 404, "URL not found")
               ELSE [q EXCEPT !.pc = "x_cache", !.obj = db_url,
                              !.pend = "delete"]]
    /\ UNCHANGED <<now, zsets, zttl, urlCache, analytics, urls, clicks, nextId>>

\* delete_cached_url answers; update_url / delete_url returns.
Invalidate(r) ==
    /\ reqs[r].pc = "x_cache"
    /\ \E ok \in BOOLEAN :
        LET q == reqs[r]
        IN  IF ok
            THEN /\ urlCache' = delete_cached_url(urlCache, q.code)
                 /\ reqs' = [reqs EXCEPT ![r] =
                                [q EXCEPT !.pc = "commit", !.status = 200]]
            ELSE /\ reqs' = [reqs EXCEPT ![r] = Fail(q, 500, "RedisError")]
                 /\ UNCHANGED urlCache
    /\ UNCHANGED <<now, zsets, zttl, analytics, urls, clicks, nextId>>

(* ------------------------------- commit -------------------------------- *)
\* The UPDATE of a flush matches no row (the row was deleted meanwhile):
\* StaleDataError.
Stale(q) == q.pend \in {"click", "expire"} /\ RowById(q.obj.id) = NoRow

\* The urls table after the session's flush.
Flushed(q) ==
    LET row == RowById(q.obj.id)
    IN  CASE q.pend = "insert" -> urls \cup {q.obj}
          [] q.pend = "click"  ->
                (urls \ {row}) \cup {[row EXCEPT !.clicks = q.obj.clicks]}
          [] q.pend = "expire" ->
                (urls \ {row}) \cup {[row EXCEPT !.expires_at = q.obj.expires_at]}
          [] q.pend = "delete" -> urls \ {row}
          [] OTHER -> urls

\* Click(url_id, ip_address, user_agent)
ClickRow(q) == [url_id |-> q.obj.id, ip_address |-> q.ip, user_agent |-> q.ua]

\* get_db after the handler returned: session.commit() flushes and commits,
\* or the commit raises (a stale UPDATE, the store failing) and the session
\* is rolled back.
Commit(r) ==
    /\ reqs[r].pc = "commit"
    /\ \E ok \in BOOLEAN :
        LET q == reqs[r]
        IN  IF ok /\ ~Stale(q)
            THEN /\ urls' = Flushed(q)
                 /\ clicks' = IF q.pend = "click"
                              THEN Append(clicks, ClickRow(q)) ELSE clicks
                 /\ Begin(r, Closed(q, q.status, "", "committed"))
            ELSE /\ Begin(r, Closed(q, q.status, "", "rolledback"))
                 /\ UNCHANGED <<urls, clicks>>
    /\ UNCHANGED <<now, zsets, zttl, urlCache, analytics, nextId>>

\* The clock advances; Redis drops the keys whose deadline has come.
Tick ==
    /\ now < MaxTime
    /\ now' = now + 1
    /\ zsets' = [k \in RateKeys |-> IF k \in Expired(now + 1) THEN {} ELSE zsets[k]]
    /\ zttl' = [k \in RateKeys |-> IF k \in Expired(now + 1) THEN NoneInt ELSE zttl[k]]
    /\ UNCHANGED <<urlCache, analytics, urls, clicks, nextId, reqs>>

(* ------------------------------ SpecRL --------------------------------- *)
\* The rate limiter alone: creation requests whose URL is malformed, so
\* every request ends right after check_rate_limit.
InitRL ==
    /\ now = 0
    /\ zsets = [k \in RateKeys |-> {}]
    /\ zttl = [k \in RateKeys |-> NoneInt]
    /\ urlCache = [c \in Codes |-> <<>>]
    /\ analytics = [c \in Codes |-> 0]
    /\ urls = {}
    /\ clicks = <<>>
    /\ nextId = 1
    /\ reqs = [r \in Reqs |-> Idle]

NextRL ==
    \/ \E r \in Reqs : \E ip \in ClientIps(r) :
            StartCreate(r, ip, FALSE, NoneStr, 0)
    \/ \E r \in Reqs : RLTrim(r)
    \/ \E r \in Reqs : RLCount(r)
    \/ \E r \in Reqs : RLAdd(r)
    \/ \E r \in Reqs : RLExpire(r)
    \/ Tick

SpecRL == InitRL /\ [][NextRL]_vars

(* ------------------------------- Spec ---------------------------------- *)
\* The service on a store that may already hold one link with a generated
\* code ("a"), active or deactivated, with or without an expiry.
SeedRow(is_active, expires_at) ==
    [id |-> 1, original_url |-> "https://a", short_code |-> "a",
     custom_alias |-> NoneStr, expires_at |-> expires_at,
     is_active |-> is_active, clicks |-> 0]

SeedExpiries == {NoneInt, 1}

Init ==
    /\ now = 0
    /\ zsets = [k \in RateKeys |-> {}]
    /\ zttl = [k \in RateKeys |-> NoneInt]
    /\ urlCache = [c \in Codes |-> <<>>]
    /\ analytics = [c \in Codes |-> 0]
    /\ urls \in {{}} \cup {{SeedRow(act, exp)} : act \in BOOLEAN, exp \in SeedExpiries}
    /\ clicks = <<>>
    /\ nextId = Cardinality(urls) + 1
    /\ reqs = [r \in Reqs |-> Idle]

Aliases == Codes \cup {NoneStr}
Days == {0, 1}

\* SpecRedirect: redirects, updates and deletes of the seeded link.
NextRedirect ==
    \/ \E r \in Reqs, ua \in UserAgents : StartRedirect(r, "a", "ip1", ua)
    \/ \E r \in Reqs : RedirectCache(r)
    \/ \E r \in Reqs : RedirectDb(r)
    \/ \E r \in Reqs : RedirectTrack(r)
    \/ \E r \in Reqs : RedirectIncr(r)
    \/ \E r \in Reqs, days \in Days : StartUpdate(r, "a", NoneStr, days)
    \/ \E r \in Reqs : UpdateRead(r)
    \/ \E r \in Reqs : StartDelete(r, "a")
    \/ \E r \in Reqs : DeleteRead(r)
    \/ \E r \in Reqs : Invalidate(r)
    \/ \E r \in Reqs : Commit(r)
    \/ Tick

SpecRedirect == Init /\ [][NextRedirect]_vars

\* SpecCreate: creations (well-formed URLs), alias updates and deletes.
NextCreate ==
    \/ \E r \in Reqs, alias \in Aliases, days \in Days :
            StartCreate(r, "ip1", TRUE, alias, days)
    \/ \E r \in Reqs : RLTrim(r)
    \/ \E r \in Reqs : RLCount(r)
    \/ \E r \in Reqs : RLAdd(r)
    \/ \E r \in Reqs : RLExpire(r)
    \/ \E r \in Reqs : CreateCheck(r)
    \/ \E r \in Reqs : CreateGenerate(r)
    \/ \E r \in Reqs : CreateFlush(r)
    \/ \E r \in Reqs, code \in Codes, alias \in Aliases :
            StartUpdate(r, code, alias, 0)
    \/ \E r \in Reqs : UpdateRead(r)
    \/ \E r \in Reqs, code \in Codes : StartDelete(r, code)
    \/ \E r \in Reqs : DeleteRead(r)
    \/ \E r \in Reqs : Invalidate(r)
    \/ \E r \in Reqs : Commit(r)

SpecCreate == Init /\ [][NextCreate]_vars

(* ------------------------------ SpecCache ------------------------------ *)
\* The Redis server is shared and outlives the process: url:a may hold a
\* payload this process did not write (a well-formed entry of the link, or
\* text that is not JSON), or nothing.
SeedPayloads == {<<>>, Malformed, dumps(CacheEntry(SeedRow(TRUE, NoneInt)))}

InitCache ==
    /\ now = 0
    /\ zsets = [k \in RateKeys |-> {}]
    /\ zttl = [k \in RateKeys |-> NoneInt]
    /\ urlCache \in {[c \in Codes |-> IF c = "a" THEN p ELSE <<>>] : p \in SeedPayloads}
    /\ analytics = [c \in Codes |-> 0]
    /\ urls \in {{}} \cup {{SeedRow(act, exp)} : act \in BOOLEAN, exp \in SeedExpiries}
    /\ clicks = <<>>
    /\ nextId = Cardinality(urls) + 1
    /\ reqs = [r \in Reqs |-> Idle]

\* SpecCache: redirects, updates and deletes of link "a" over such a cache.
NextCache ==
    \/ \E r \in Reqs, ua \in UserAgents : StartRedirect(r, "a", "ip1", ua)
    \/ \E r \in Reqs : RedirectCache(r)
    \/ \E r \in Reqs : RedirectDb(r)
    \/ \E r \in Reqs : RedirectTrack(r)
    \/ \E r \in Reqs : RedirectIncr(r)
    \/ \E r \in Reqs, days \in Days : StartUpdate(r, "a", NoneStr, days)
    \/ \E r \in Reqs : UpdateRead(r)
    \/ \E r \in Reqs : StartDelete(r, "a")
    \/ \E r \in Reqs : DeleteRead(r)
    \/ \E r \in Reqs : Invalidate(r)
    \/ \E r \in Reqs : Commit(r)

SpecCache == InitCache /\ [][NextCache]_vars

(* ------------------------------ SpecWarm ------------------------------- *)
\* The cache may already hold the entry of the link in the store, as a
\* writer of url:<code> that does send its SET leaves it (this process
\* never writes the key: see cache_url).
InitWarm ==
    /\ now = 0
    /\ zsets = [k \in RateKeys |-> {}]
    /\ zttl = [k \in RateKeys |-> NoneInt]
    /\ urls \in {{}} \cup {{SeedRow(act, exp)} : act \in BOOLEAN, exp \in SeedExpiries}
    /\ urlCache \in {[c \in Codes |-> <<>>]} \cup
            {[c \in Codes |-> IF c = u.short_code THEN dumps(CacheEntry(u)) ELSE <<>>] :
                u \in urls}
    /\ analytics = [c \in Codes |-> 0]
    /\ clicks = <<>>
    /\ nextId = Cardinality(urls) + 1
    /\ reqs = [r \in Reqs |-> Idle]

\* SpecWarm: redirects, updates (also to the alias "b") and deletes of link
\* "a" and creations with the alias "b" over such a cache.
NextWarm ==
    \/ \E r \in Reqs, ua \in UserAgents : StartRedirect(r, "a", "ip1", ua)
    \/ \E r \in Reqs : RedirectCache(r)
    \/ \E r \in Reqs : RedirectDb(r)
    \/ \E r \in Reqs : RedirectTrack(r)
    \/ \E r \in Reqs : RedirectIncr(r)
    \/ \E r \in Reqs, alias \in {NoneStr, "b"}, days \in Days :
            StartUpdate(r, "a", alias, days)
    \/ \E r \in Reqs : UpdateRead(r)
    \/ \E r \in Reqs : StartDelete(r, "a")
    \/ \E r \in Reqs : DeleteRead(r)
    \/ \E r \in Reqs : Invalidate(r)
    \/ \E r \in Reqs : StartCreate(r, "ip1", TRUE, "b", 0)
    \/ \E r \in Reqs : RLTrim(r)
    \/ \E r \in Reqs : RLCount(r)
    \/ \E r \in Reqs : RLAdd(r)
    \/ \E r \in Reqs : RLExpire(r)
    \/ \E r \in Reqs : CreateCheck(r)
    \/ \E r \in Reqs : CreateFlush(r)
    \/ \E r \in Reqs : Commit(r)

SpecWarm == InitWarm /\ [][NextWarm]_vars

(* ========================= rate limiter claims ========================= *)
RLPcs == {"rl_trim", "rl_count", "rl_add", "rl_expire"}

\* The ZCARD of request r's check_rate_limit has just answered.
Counted(r) ==
    /\ reqs[r].pc = "rl_count"
    /\ reqs'[r].pc # "rl_count"
    /\ reqs'[r].rlExc # "RedisError"

\* What the sorted set of r's key holds when it is counted.
Recorded(r) == zcard(zsets[RateKey(reqs[r].ip, Endpoint)])

\* C1: a check that counts fewer than L recorded requests in the window lets
\* the request through, and a check that counts L or more is rejected to the
\* caller with HTTP 429.
C1_RejectsAtLimit ==
    [][\A r \in Reqs : Counted(r) =>
          /\ Recorded(r) < Requests => reqs'[r].pc = "rl_add"
          /\ Recorded(r) >= Requests =>
                reqs'[r].rl = "raised" /\ reqs'[r].status = 429]_vars

\* C2: a step of a check touches only the sorted set of its own
\* (ip, endpoint) key, and whether it is rejected depends on that set alone:
\* rejected (429) when its own set holds L members, let through otherwise,
\* whatever the other client's set holds.
C2_IsolatedPerKey ==
    [][\A r \in Reqs : reqs[r].pc \in RLPcs /\ reqs'[r].pc # reqs[r].pc =>
          /\ \A k \in RateKeys \ {RateKey(reqs[r].ip, Endpoint)} :
                zsets'[k] = zsets[k] /\ zttl'[k] = zttl[k]
          /\ Counted(r) =>
                (reqs'[r].status = 429 <=> Recorded(r) >= Requests)]_vars

\* The frame half of C2 alone (holds).
C2_Frame ==
    [][\A r \in Reqs : reqs[r].pc \in RLPcs /\ reqs'[r].pc # reqs[r].pc =>
          \A k \in RateKeys \ {RateKey(reqs[r].ip, Endpoint)} :
                zsets'[k] = zsets[k] /\ zttl'[k] = zttl[k]]_vars

\* C3: fail-open.  A check in which a cache-backend call raised has returned
\* normally to create_short_url: nothing was raised to the caller and the
\* request was neither rejected (429) nor failed (500).
C3_FailOpen ==
    \A r \in Reqs : reqs[r].rlExc = "RedisError" =>
        /\ reqs[r].rl = "returned"
        /\ reqs[r].status \notin {429, 500}

\* C3 witness: a backend call of the check failed and the creation went on
\* to URL validation (which answered 400 for the malformed URL).
C3_Witness ==
    \E r \in Reqs :
        /\ reqs[r].rlExc = "RedisError" /\ reqs[r].rl = "returned"
        /\ reqs[r].pc = "done" /\ reqs[r].status = 400

(* ============================ redirect claims ========================== *)
\* The entry a redirect resolves in this step, as a sequence (<<>>: none):
\* the cached entry on a hit, else the projection of the row it selects.
ResolvedEntry(r) ==
    IF reqs[r].pc = "r_cache" THEN get_cached_url(urlCache, reqs[r].code).value
    ELSE IF RowByCode(reqs[r].code) = NoRow THEN <<>>
         ELSE <<CacheEntry(RowByCode(reqs[r].code))>>

\* Request r's resolve step happens: the cache answered with a hit, or the
\* durable lookup answered.
ResolveStep(r) ==
    /\ reqs'[r].pc # reqs[r].pc
    /\ \/ reqs[r].pc = "r_db"
       \/ /\ reqs[r].pc = "r_cache"
          /\ ResolvedEntry(r) # <<>>
          /\ reqs'[r].status # 500

\* The session of request r commits in this step.
Commits(r) == reqs[r].pc = "commit" /\ reqs'[r].tx = "committed"

ClicksOf(id) == {i \in 1..Len(clicks) : clicks[i].url_id = id}

\* C4: a redirect that returned the original URL and whose link is in the
\* store raises the link's durable clicks counter by exactly 1 and inserts
\* exactly one Click row for it, carrying the request's ip and user agent.
C4_OneClickPerRedirect ==
    [][\A r \in Reqs :
          /\ reqs[r].op = "redirect" /\ reqs[r].status = 307 /\ Commits(r)
          /\ RowById(reqs[r].obj.id) # NoRow
          => /\ RowIn(urls', reqs[r].obj.id) # NoRow
             /\ RowIn(urls', reqs[r].obj.id).clicks =
                    RowById(reqs[r].obj.id).clicks + 1
             /\ clicks' = Append(clicks, [url_id |-> reqs[r].obj.id,
                                          ip_address |-> reqs[r].ip,
                                          user_agent |-> reqs[r].ua])]_vars

\* C5: whatever the interleaving, the durable counter of a link has gone up
\* by the number of redirects committed for it (each inserts one Click row;
\* the counter started at 0): no increment is lost.
C5_NoLostIncrement ==
    \A u \in urls : u.clicks = Cardinality(ClicksOf(u.id))

\* C6: a redirect that resolves an entry whose active flag is false ends in
\* 410 and changes neither the clicks counter, the clicks table nor the
\* analytics:<code> counter, from the cache and from the store alike.
C6_DeactivatedIsGone ==
    [][\A r \in Reqs :
          /\ ResolveStep(r)
          /\ ResolvedEntry(r) # <<>>
          /\ ~ResolvedEntry(r)[1].is_active
          => /\ reqs'[r].pc = "done" /\ reqs'[r].status = 410
             /\ reqs'[r].tx = "rolledback"
             /\ UNCHANGED <<urls, clicks, analytics>>]_vars

\* C6 witness: a redirect ended in 410 for a deactivated link.
C6_Witness ==
    \E r \in Reqs :
        /\ reqs[r].op = "redirect" /\ reqs[r].status = 410
        /\ reqs[r].detail = "URL has been deactivated"
        /\ \E u \in urls : u.short_code = reqs[r].code /\ ~u.is_active

\* C7: a redirect that resolves an active entry with an expiry is rejected
\* as expired (410, no click) exactly when now >= expires_at.
C7_ExpiryInclusive ==
    [][\A r \in Reqs :
          /\ ResolveStep(r)
          /\ ResolvedEntry(r) # <<>>
          /\ ResolvedEntry(r)[1].is_active
          /\ ResolvedEntry(r)[1].expires_at # <<>>
          => IF now >= fromisoformat(ResolvedEntry(r)[1].expires_at)
             THEN /\ reqs'[r].status = 410
                  /\ reqs'[r].detail = "URL has expired"
                  /\ UNCHANGED <<urls, clicks, analytics>>
             ELSE reqs'[r].pc = "r_track"]_vars

\* C8: a redirect that started after update_url / delete_url for its code
\* returned success resolves against the state after that mutation: nothing
\* after a delete, the new expiry after an update.
C8_NoStaleRead ==
    [][\A r \in Reqs : ResolveStep(r) =>
          \A m \in reqs[r].after :
              /\ reqs[m].pend = "delete" => ResolvedEntry(r) = <<>>
              /\ reqs[m].pend = "expire" /\ ResolvedEntry(r) # <<>> =>
                    ResolvedEntry(r)[1].expires_at = isoformat(reqs[m].obj.expires_at)]_vars

(* ============================= create claims =========================== *)
\* C9: in every state of the store no two links share a short code and no
\* two links share a custom alias.
C9_UniqueCodes ==
    \A u, v \in urls : u # v =>
        /\ u.short_code # v.short_code
        /\ u.custom_alias # NoneStr => u.custom_alias # v.custom_alias

\* C9 witness: two creators raced for one alias; one row is in the store and
\* the other INSERT was refused by the unique index.
C9_Witness ==
    \E r \in Reqs :
        /\ reqs[r].op = "create" /\ reqs[r].detail = "IntegrityError"
        /\ \E u \in urls : u.custom_alias = reqs[r].code

\* C10: a creation whose alias equals the short code or the alias of a link
\* in the store is refused with 400 and changes neither store nor cache;
\* otherwise it goes on, and the row it commits has short_code = alias.
C10_AliasConflict ==
    [][\A r \in Reqs : reqs[r].op = "create" /\ reqs[r].code # NoneStr =>
          /\ reqs[r].pc = "c_check" /\ reqs'[r].pc # "c_check" =>
                IF \E u \in urls : \/ u.short_code = reqs[r].code
                                    \/ u.custom_alias = reqs[r].code
                THEN /\ reqs'[r].status = 400
                     /\ reqs'[r].detail = "Custom alias already exists"
                     /\ reqs'[r].tx = "rolledback"
                     /\ UNCHANGED <<urls, clicks, urlCache, analytics>>
                ELSE reqs'[r].pc = "c_flush"
          /\ Commits(r) =>
                \E u \in urls' \ urls :
                    /\ u.short_code = reqs[r].code
                    /\ u.custom_alias = reqs[r].code
                    /\ urls' = urls \cup {u}]_vars

\* C10 witness: one creation with the alias committed, and a second one
\* with the same alias was refused with 400.
C10_Witness ==
    \E r \in Reqs :
        /\ reqs[r].op = "create" /\ reqs[r].status = 400
        /\ reqs[r].detail = "Custom alias already exists"
        /\ \E u \in urls : u.custom_alias = reqs[r].code /\ u.short_code = reqs[r].code

(* ======================= generated-code claims ========================= *)
\* The lookup of the generated code of request r answers in this step.
Looked(r) ==
    /\ reqs[r].pc = "c_gen"
    /\ reqs'[r].pc # "c_gen" \/ reqs'[r].result # reqs[r].result

\* C11 concerns creations without a custom alias that succeed.  There are
\* none: no request without an alias ever gets a short code assigned, flushes
\* an INSERT or answers 201 (holds under SpecCreate).
NoGeneratedCodeAssigned ==
    \A r \in Reqs : reqs[r].op = "create" /\ reqs[r].code = NoneStr =>
        /\ reqs[r].pc \notin {"c_flush", "commit"}
        /\ reqs[r].status # 201

\* C12: the generate-and-check loop stops as soon as the generated code
\* collides with no short code in the store: the lookup of a free code is
\* followed by the INSERT of the link, not by another generation.
C12_LoopStops ==
    [][\A r \in Reqs :
          Looked(r) /\ RowByCode(reqs[r].result) = NoRow
          => reqs'[r].pc = "c_flush"]_vars

(* ============================ cache claims ============================= *)
\* Request r's durable fetch finds the link in this step, so that
\* cache_url(code, entry) is called and completes in it.
Fetched(r) ==
    /\ reqs[r].pc = "r_db" /\ reqs'[r].pc # "r_db"
    /\ RowByCode(reqs[r].code) # NoRow

\* C13: round trip.  Right after cache_url(code, entry) completed,
\* get_cached_url(code) returns an entry equal to the one stored.
C13_CacheRoundTrip ==
    [][\A r \in Reqs : Fetched(r) =>
          get_cached_url(urlCache', reqs[r].code) =
              Returned(<<CacheEntry(RowByCode(reqs[r].code))>>)]_vars

\* delete_cached_url of request r answers in this step, the backend being
\* reachable.
Invalidated(r) ==
    /\ reqs[r].pc = "x_cache" /\ reqs'[r].pc # "x_cache"
    /\ reqs'[r].detail # "RedisError"

\* C14: invalidation is idempotent.  delete_cached_url(code) ends without
\* error, leaves no entry under url:<code> and touches no other entry; on a
\* code without entry (in particular right after another invalidation of
\* the same code) it leaves the cache as it was.
C14_InvalidateIdempotent ==
    [][\A r \in Reqs : Invalidated(r) =>
          /\ reqs'[r].pc = "commit" /\ reqs'[r].status = 200
          /\ urlCache'[reqs[r].code] = <<>>
          /\ \A c \in Codes \ {reqs[r].code} : urlCache'[c] = urlCache[c]
          /\ urlCache[reqs[r].code] = <<>> => urlCache' = urlCache]_vars

\* C14 witness: two invalidations of the same code have completed one after
\* the other (the second found no entry), both without error.
C14_Witness ==
    /\ \A r \in Reqs : /\ reqs[r].op \in {"update", "delete"}
                        /\ reqs[r].pc = "commit" /\ reqs[r].status = 200
                        /\ reqs[r].code = "a"
    /\ urlCache["a"] = <<>>

\* C15: no cache-backend failure is surfaced: no redirect, update or delete
\* ends with the backend's exception.
C15_CacheFailureHidden ==
    \A r \in Reqs : reqs[r].op \in {"redirect", "update", "delete"} =>
        reqs[r].detail # "RedisError"

\* C16: once resolve and validate have succeeded (the redirect is in
\* _track_click), the redirect returns the original URL: its next step is
\* the next call of _track_click or the return with the RedirectResponse.
C16_ClickFailureTolerated ==
    [][\A r \in Reqs :
          reqs[r].pc \in {"r_track", "r_incr"} /\ reqs'[r].pc # reqs[r].pc
          => \/ reqs'[r].pc = "r_incr"
             \/ reqs'[r].pc = "commit" /\ reqs'[r].status = 307]_vars

\* C17: a redirect never invalidates.  No step of a redirect changes an
\* entry that is present, and the step in which a redirect that missed the
\* cache fetches a link it may follow from the store leaves the entry
\* present.
C17_RedirectKeepsCache ==
    [][\A r \in Reqs :
          reqs[r].op = "redirect" /\ reqs'[r].pc # reqs[r].pc =>
             /\ urlCache[reqs[r].code] # <<>> =>
                    urlCache'[reqs[r].code] = urlCache[reqs[r].code]
             /\ Fetched(r) /\ reqs'[r].pc = "r_track" =>
                    urlCache'[reqs[r].code] # <<>>]_vars

\* C19: a payload under url:<code> that does not parse is a miss: the
\* redirect goes on to the durable lookup.
C19_MalformedIsMiss ==
    [][\A r \in Reqs :
          /\ reqs[r].pc = "r_cache" /\ reqs'[r].pc # "r_cache"
          /\ urlCache[reqs[r].code] # <<>>
          /\ ~Parses(urlCache[reqs[r].code])
          /\ reqs'[r].detail # "RedisError"
          => reqs'[r].pc = "r_db"]_vars

(* ============================ update claims ============================ *)
\* C18: update_url of an existing link with a custom alias no other link
\* uses sets custom_alias and short_code to the alias, applies the
\* expiration and goes on to delete url:<old code>; every update that gets
\* to the invalidation leaves no entry under url:<code>.
C18_UpdateAlias ==
    [][\A r \in Reqs : reqs[r].op = "update" =>
          /\ /\ reqs[r].pc = "u_read" /\ reqs'[r].pc # "u_read"
             /\ reqs[r].alias # NoneStr
             /\ RowByCode(reqs[r].code) # NoRow
             /\ \A u \in urls \ {RowByCode(reqs[r].code)} :
                    u.short_code # reqs[r].alias /\ u.custom_alias # reqs[r].alias
             => /\ reqs'[r].pc = "x_cache"
                /\ reqs'[r].obj.custom_alias = reqs[r].alias
                /\ reqs'[r].obj.short_code = reqs[r].alias
                /\ reqs'[r].obj.expires_at =
                       set_expiration(RowByCode(reqs[r].code).expires_at, reqs[r].days)
          /\ Invalidated(r) =>
                urlCache'[reqs[r].code] = <<>> /\ reqs'[r].status = 200]_vars

(* ===================== rate limiter claims, continued =================== *)
\* C20: a check that counts L or more members rejects the request (429) and
\* adds no member: the sorted sets stay as the trim left them and the check
\* is over.
C20_RejectedAddsNothing ==
    [][\A r \in Reqs : Counted(r) /\ Recorded(r) >= Requests =>
          /\ reqs'[r].rl = "raised" /\ reqs'[r].status = 429
          /\ reqs'[r].pc = "done"
          /\ UNCHANGED <<zsets, zttl>>]_vars

\* The frame half of C20 alone (holds): such a check never issues ZADD or
\* EXPIRE and changes no sorted set.
C20_Frame ==
    [][\A r \in Reqs : Counted(r) /\ Recorded(r) >= Requests =>
          /\ reqs'[r].pc \notin {"rl_add", "rl_expire"}
          /\ UNCHANGED <<zsets, zttl>>]_vars

\* The members of the sorted set of key k scored t.
ScoredAt(k, t) == {m \in zsets[k] : m.score = t}

\* C21: the trim of a check at time T removes exactly the members with
\* score < T - W: what is left is every member with score >= T - W, the one
\* recorded exactly at T - W included.
C21_TrimKeepsBoundary ==
    [][\A r \in Reqs :
          reqs[r].pc = "rl_trim" /\ reqs'[r].pc = "rl_count" =>
             LET k == RateKey(reqs[r].ip, Endpoint)
             IN  zsets'[k] = {m \in zsets[k] : m.score >= reqs[r].current - Window}]_vars

\* C22: allowed requests of one (ip, endpoint) in the same second share one
\* member: the ZADD of a request whose second is already recorded leaves the
\* set as it is, and no set ever holds two members for one second.
C22_SameSecondOneMember ==
    [][\A r \in Reqs :
          reqs[r].pc = "rl_add" /\ reqs'[r].pc = "rl_expire" =>
             LET k == RateKey(reqs[r].ip, Endpoint)
             IN  /\ ScoredAt(k, reqs[r].current) # {} => zsets'[k] = zsets[k]
                 /\ \A t \in 0..MaxTime :
                        Cardinality({m \in zsets'[k] : m.score = t}) <= 1
                 /\ zcard(zsets'[k]) <= zcard(zsets[k]) + 1]_vars

\* C22 witness: two requests of one client read the same second and both
\* were allowed and have added; the set holds one member for that second.
C22_Witness ==
    /\ \A r \in Reqs : reqs[r].pc = "rl_expire" /\ reqs[r].ip = "ip1"
    /\ reqs["r1"].current = reqs["r2"].current
    /\ zcard(ScoredAt(RateKey("ip1", Endpoint), reqs["r1"].current)) = 1

\* C23: the creation flow checks the rate limit first.  While the check
\* runs nothing is read from or written to the store or the url cache; a
\* creation whose check raised the rate-limit error is over with 429, with
\* no URL validation and no store access; a creation refused with 400
\* (invalid URL, alias conflict) persists no link and writes no cache entry.
C23_RateLimitFirst ==
    [][\A r \in Reqs : reqs[r].op = "create" /\ reqs'[r].pc # reqs[r].pc =>
          /\ reqs[r].pc \in RLPcs => UNCHANGED <<urls, urlCache, nextId>>
          /\ reqs'[r].rlExc = "HTTPException" =>
                /\ reqs'[r].pc = "done" /\ reqs'[r].status = 429
                /\ reqs'[r].tx = "rolledback"
          /\ reqs'[r].status = 400 =>
                reqs'[r].tx = "rolledback" /\ UNCHANGED <<urls, urlCache>>]_vars

\* C23 without the rejection itself (holds): the order of the calls, and
\* the 400 answers leaving store and cache alone.
C23_Frame ==
    [][\A r \in Reqs : reqs[r].op = "create" /\ reqs'[r].pc # reqs[r].pc =>
          /\ reqs[r].pc \in RLPcs => UNCHANGED <<urls, urlCache, nextId>>
          /\ reqs'[r].status = 400 =>
                reqs'[r].tx = "rolledback" /\ UNCHANGED <<urls, urlCache>>]_vars

(* ======================= click accounting, continued =================== *)
\* C24: the counter and the Click rows of a link move together.  Every
\* step that changes the committed store changes the clicks counter of each
\* link it keeps and the number of Click rows referencing that link by the
\* same amount, so that (both starting at 0) they are equal in every
\* committed state.
C24_CounterMatchesClickRows ==
    [][\A u \in urls : \A v \in urls' : u.id = v.id =>
          v.clicks - u.clicks =
              Cardinality(ClicksOf(u.id))' - Cardinality(ClicksOf(u.id))]_vars

(* ===================== rate limiter under concurrency ================== *)
\* The members of key k whose score lies in the window [now - W, now].
InWindow(k) == {m \in zsets[k] : now - Window <= m.score /\ m.score <= now}

\* C25: no sorted set ever holds more than L members inside the current
\* window.
C25_AtMostLimitInWindow ==
    \A k \in RateKeys : zcard(InWindow(k)) <= Requests

(* ========================= cache against store ========================= *)
\* No request is in progress.
Quiescent == \A r \in Reqs : ~Running(r)

====
